---- MODULE Spec2Model ----
(***************************************************************************)
(* Model of forkontext.py: the caching fetch() of lines 71-102 over the    *)
(* Entry table of lines 48-53.  Time is counted in whole hours.  Each      *)
(* process is one caller of fetch(); the durable table is shared, the      *)
(* SQLAlchemy session and its loaded Entry are private to the call.        *)
(* The table outlives the server process (init_db creates it only when it   *)
(* is missing), so a run starts at hour 0 over a table that earlier,        *)
(* non-overlapping calls at hours <= 0 may have filled.                     *)
(***************************************************************************)
EXTENDS Integers, Sequences, FiniteSets

\* ---------------------------------------------------------------- bounds
NumProcs == 2
NumUrls == 2
MaxClock == 1

\* ------------------------------------------------------ program constants
FAIL_TTL_HOURS == 1
OK_TTL_HOURS == 12

Procs == 1..NumProcs
Urls == 1..NumUrls

\* Status codes a live GET can answer with: 200 and 204 are two different
\* 2xx answers, 301 is a non-2xx answer that requests still counts as "ok"
\* (truthy), 503 a non-2xx answer that is falsy.  A response is told from
\* another by its status.
Statuses == {200, 204, 301, 503}
Responses == [status : Statuses]

\* Python's None for the two nullable columns of Entry.
NoneResponse == [status |-> 0]
NoneExpiry == -1

\* request.args.get('url') of a request that has no url parameter, or an
\* empty one, line 125
NoUrl == 0

VARIABLES
    store,    \* the entry table: a sequence of rows, the row's id is its index
    clock,    \* datetime.utcnow(), in hours
    pc,       \* where each caller is inside fetch()
    url,      \* the argument of the call
    now,      \* the local `now` of line 74
    cached,   \* the local `cached`: the Entry held by the session
    loaded,   \* the row as the query of line 75 found it (id 0: no row)
    live,     \* the local `resp` of line 84 (NoneResponse: no GET answered)
    gets,     \* number of req_session.get calls made by the call
    outcome,  \* "none" | "returned" | "raised", or "missing_url" when the
              \* request was answered without calling fetch()
    ret,      \* the value returned by line 97
    fault,    \* which statement raised: "none" | "query" | "get" | "commit"
    sess      \* the session of line 73: "none" | "open" | "closed"

vars == <<store, clock, pc, url, now, cached, loaded, live, gets, outcome, ret,
          fault, sess>>

\* ------------------------------------------------------------- helpers

\* resp.status_code // 100 != 2, lines 85 and 89
Is2xx(r) == r.status \div 100 = 2

\* `not cached.response`, line 89: None is falsy, and a requests Response is
\* falsy when its status is a 4xx or 5xx (Response.__bool__ is Response.ok).
Falsy(r) == r = NoneResponse \/ (r.status >= 400 /\ r.status < 600)

\* Matching without the filter on the url: the query selects among all rows
MatchingAny(u) == {i \in DOMAIN store : u \in Urls \cup {NoUrl}}

\* the rows filter_by(url=url) selects, line 75
Matching(u) == {i \in DOMAIN store : store[i].url = u}

\* Stale with the comparison turned around
StaleReversed(t, e) == t <= e

\* Stale with a strict comparison: an entry is still served at its expiry
StaleStrict(t, e) == t > e

\* `not cached or now >= cached.expiry`, line 79, for an entry that exists
Stale(t, e) == t >= e

\* Entry(url=url), line 81: a pending row with NULL expiry and response
NewEntry == [id |-> 0, expiry |-> NoneExpiry, response |-> NoneResponse,
             dirty |-> {}]

\* an Entry loaded from row i
LoadedEntry(i) == [id |-> i, expiry |-> store[i].expiry,
                   response |-> store[i].response, dirty |-> {}]

\* ApplyPolicy without the guard of line 89: a failure is always stored
ApplyPolicyUnguarded(e, r, t) ==
    IF ~Is2xx(r)
    THEN [e EXCEPT !.response = r, !.expiry = t + FAIL_TTL_HOURS,
                   !.dirty = {"response", "expiry"}]
    ELSE [e EXCEPT !.response = r, !.expiry = t + OK_TTL_HOURS,
                   !.dirty = {"response", "expiry"}]

\* ApplyPolicy with the two time-to-live values exchanged
ApplyPolicySwappedTtl(e, r, t) ==
    IF ~Is2xx(r)
    THEN IF Falsy(e.response) \/ ~Is2xx(e.response)
         THEN [e EXCEPT !.response = r, !.expiry = t + OK_TTL_HOURS,
                        !.dirty = {"response", "expiry"}]
         ELSE [e EXCEPT !.expiry = t + OK_TTL_HOURS, !.dirty = {"expiry"}]
    ELSE [e EXCEPT !.response = r, !.expiry = t + FAIL_TTL_HOURS,
                   !.dirty = {"response", "expiry"}]

\* ApplyPolicy with the guard of line 89 applied to a success as well
ApplyPolicyKeepsOldSuccess(e, r, t) ==
    IF Falsy(e.response) \/ ~Is2xx(e.response)
    THEN [e EXCEPT !.response = r,
                   !.expiry = t + (IF Is2xx(r) THEN OK_TTL_HOURS
                                   ELSE FAIL_TTL_HOURS),
                   !.dirty = {"response", "expiry"}]
    ELSE [e EXCEPT !.expiry = t + (IF Is2xx(r) THEN OK_TTL_HOURS
                                   ELSE FAIL_TTL_HOURS),
                   !.dirty = {"expiry"}]

\* ApplyPolicy with `not cached.response` written as `cached.response`: a
\* failure is stored only over a truthy non-2xx response
ApplyPolicyNotDropped(e, r, t) ==
    IF ~Is2xx(r)
    THEN IF ~Falsy(e.response) /\ ~Is2xx(e.response)
         THEN [e EXCEPT !.response = r, !.expiry = t + FAIL_TTL_HOURS,
                        !.dirty = {"response", "expiry"}]
         ELSE [e EXCEPT !.expiry = t + FAIL_TTL_HOURS, !.dirty = {"expiry"}]
    ELSE [e EXCEPT !.response = r, !.expiry = t + OK_TTL_HOURS,
                   !.dirty = {"response", "expiry"}]

\* lines 85-94: the policy applied to the session's Entry
ApplyPolicy(e, r, t) ==
    IF ~Is2xx(r)
    THEN IF Falsy(e.response) \/ ~Is2xx(e.response)
         THEN [e EXCEPT !.response = r, !.expiry = t + FAIL_TTL_HOURS,
                        !.dirty = {"response", "expiry"}]
         ELSE [e EXCEPT !.expiry = t + FAIL_TTL_HOURS, !.dirty = {"expiry"}]
    ELSE [e EXCEPT !.response = r, !.expiry = t + OK_TTL_HOURS,
                   !.dirty = {"response", "expiry"}]

\* session.commit(), line 96: the flush INSERTs a pending Entry and UPDATEs
\* only the columns assigned since the load.
Flush(p) ==
    IF cached[p].id = 0
    THEN Append(store, [url |-> url[p], expiry |-> cached[p].expiry,
                        response |-> cached[p].response])
    ELSE IF cached[p].dirty = {} THEN store
    ELSE [store EXCEPT ![cached[p].id] =
            [url |-> @.url,
             expiry |-> IF "expiry" \in cached[p].dirty
                        THEN cached[p].expiry ELSE @.expiry,
             response |-> IF "response" \in cached[p].dirty
                          THEN cached[p].response ELSE @.response]]

\* Rollback that lets the pending writes of the session reach the table
RollbackFlushes(p) == Flush(p)

\* Rollback that evicts the entry the failed call had loaded
RollbackEvicts(p) ==
    IF cached[p].id = 0 THEN store
    ELSE [j \in 1..(Len(store) - 1) |->
            IF j < cached[p].id THEN store[j] ELSE store[j + 1]]

\* session.rollback(), line 99: nothing pending reaches the table
Rollback(p) == store

\* the id of the row the session's Entry has after the commit
RowId(p) == IF cached[p].id = 0 THEN Len(store) + 1 ELSE cached[p].id

\* the url the overlapping callers contend for
SharedUrl == {u \in Urls : u = 1}

\* A row that non-overlapping calls at hours <= 0 can have left for u: every
\* row is written with a response and an expiry (lines 90-94); a 2xx response
\* was stored at most OK_TTL_HOURS ahead, and a non-2xx response is only ever
\* stored together with an expiry FAIL_TTL_HOURS ahead.  An expiry of 0 stands
\* for every expiry that has passed when the run starts.
EarlierRows(u) ==
    {row \in [url : {u}, expiry : 0..MaxClock, response : Responses] :
        /\ row.expiry <= OK_TTL_HOURS
        /\ ~Is2xx(row.response) => row.expiry <= FAIL_TTL_HOURS}

\* The tables such calls can have left for the urls 1..n: at most one row per
\* url, here inserted in the order of the urls.
RECURSIVE EarlierStores(_)
EarlierStores(n) ==
    IF n = 0 THEN {<<>>}
    ELSE EarlierStores(n - 1) \cup
         UNION {{Append(s, row) : row \in EarlierRows(n)}
                : s \in EarlierStores(n - 1)}

\* ---------------------------------------------------------------- Init
\* no caller is inside fetch(); the table is one that earlier calls for the
\* urls 1..n can have left
InitOver(n) ==
    /\ store \in EarlierStores(n)
    /\ clock = 0
    /\ pc = [p \in Procs |-> "idle"]
    /\ url = [p \in Procs |-> 1]
    /\ now = [p \in Procs |-> 0]
    /\ cached = [p \in Procs |-> NewEntry]
    /\ loaded = [p \in Procs |-> NewEntry]
    /\ live = [p \in Procs |-> NoneResponse]
    /\ gets = [p \in Procs |-> 0]
    /\ outcome = [p \in Procs |-> "none"]
    /\ ret = [p \in Procs |-> NoneResponse]
    /\ fault = [p \in Procs |-> "none"]
    /\ sess = [p \in Procs |-> "none"]

\* the table holds rows of any of the urls
Init == InitOver(NumUrls)

\* the table holds at most the row of the url the overlapping callers
\* contend for
InitShared == InitOver(Cardinality(SharedUrl))

\* -------------------------------------------------------------- actions

\* the clock advances by an hour
Tick ==
    /\ clock < MaxClock
    /\ clock' = clock + 1
    /\ UNCHANGED <<store, pc, url, now, cached, loaded, live, gets, outcome,
                   ret, fault, sess>>

\* lines 71-74: a caller enters fetch(u), opens a session and reads the clock
Call(p, u) ==
    /\ pc[p] = "idle"
    /\ pc' = [pc EXCEPT ![p] = "query"]
    /\ url' = [url EXCEPT ![p] = u]
    /\ now' = [now EXCEPT ![p] = clock]
    /\ sess' = [sess EXCEPT ![p] = "open"]
    /\ UNCHANGED <<store, clock, cached, loaded, live, gets, outcome, ret,
                   fault>>

\* Query behind a single-flight gate: the lookup waits while another call for
\* the same url is between its freshness test and its commit
QuerySingleFlight(p) ==
    /\ pc[p] = "query"
    /\ \A q \in Procs \ {p} :
            ~(pc[q] \in {"get", "commit"} /\ url[q] = url[p])
    /\ IF Matching(url[p]) = {}
       THEN /\ cached' = [cached EXCEPT ![p] = NewEntry]
            /\ loaded' = [loaded EXCEPT ![p] = NewEntry]
            /\ pc' = [pc EXCEPT ![p] = "get"]
       ELSE \E i \in Matching(url[p]) :
            /\ cached' = [cached EXCEPT ![p] = LoadedEntry(i)]
            /\ loaded' = [loaded EXCEPT ![p] = LoadedEntry(i)]
            /\ pc' = [pc EXCEPT ![p] =
                        IF Stale(now[p], store[i].expiry) THEN "get"
                        ELSE "commit"]
    /\ UNCHANGED <<store, clock, url, now, live, gets, outcome, ret, fault,
                   sess>>

\* lines 75-82: the query and the freshness test
Query(p) ==
    /\ pc[p] = "query"
    /\ IF Matching(url[p]) = {}
       THEN /\ cached' = [cached EXCEPT ![p] = NewEntry]
            /\ loaded' = [loaded EXCEPT ![p] = NewEntry]
            /\ pc' = [pc EXCEPT ![p] = "get"]
       ELSE \E i \in Matching(url[p]) :
            /\ cached' = [cached EXCEPT ![p] = LoadedEntry(i)]
            /\ loaded' = [loaded EXCEPT ![p] = LoadedEntry(i)]
            /\ pc' = [pc EXCEPT ![p] =
                        IF Stale(now[p], store[i].expiry) THEN "get"
                        ELSE "commit"]
    /\ UNCHANGED <<store, clock, url, now, live, gets, outcome, ret, fault,
                   sess>>

\* Get with a retry inside the call: an answer that is not 2xx is asked for
\* a second time
GetRetriesOnFailure(p, r) ==
    /\ pc[p] = "get"
    /\ live' = [live EXCEPT ![p] = r]
    /\ gets' = [gets EXCEPT ![p] = @ + (IF Is2xx(r) THEN 1 ELSE 2)]
    /\ cached' = [cached EXCEPT ![p] = ApplyPolicy(@, r, now[p])]
    /\ pc' = [pc EXCEPT ![p] = "commit"]
    /\ UNCHANGED <<store, clock, url, now, loaded, outcome, ret, fault, sess>>

\* lines 84-94: the live GET answers with r and the policy is applied
Get(p, r) ==
    /\ pc[p] = "get"
    /\ live' = [live EXCEPT ![p] = r]
    /\ gets' = [gets EXCEPT ![p] = @ + 1]
    /\ cached' = [cached EXCEPT ![p] = ApplyPolicy(@, r, now[p])]
    /\ pc' = [pc EXCEPT ![p] = "commit"]
    /\ UNCHANGED <<store, clock, url, now, loaded, outcome, ret, fault, sess>>

\* lines 96, 97, 102: the commit succeeds; the Entry, expired by the commit,
\* is read back for the return value; the session is closed
Commit(p) ==
    /\ pc[p] = "commit"
    /\ store' = Flush(p)
    /\ ret' = [ret EXCEPT ![p] = Flush(p)[RowId(p)].response]
    /\ outcome' = [outcome EXCEPT ![p] = "returned"]
    /\ sess' = [sess EXCEPT ![p] = "closed"]
    /\ pc' = [pc EXCEPT ![p] = "done"]
    /\ UNCHANGED <<clock, url, now, cached, loaded, live, gets, fault>>

\* RaiseUnclosed: Raise without the finally of lines 101-102
RaiseUnclosed(p, what) ==
    /\ store' = Rollback(p)
    /\ fault' = [fault EXCEPT ![p] = what]
    /\ outcome' = [outcome EXCEPT ![p] = "raised"]
    /\ sess' = sess
    /\ pc' = [pc EXCEPT ![p] = "done"]
    /\ UNCHANGED <<clock, url, now, cached, loaded, live, ret>>

\* lines 98-102: a statement raised; rollback, re-raise, close
Raise(p, what) ==
    /\ store' = Rollback(p)
    /\ fault' = [fault EXCEPT ![p] = what]
    /\ outcome' = [outcome EXCEPT ![p] = "raised"]
    /\ sess' = [sess EXCEPT ![p] = "closed"]
    /\ pc' = [pc EXCEPT ![p] = "done"]
    /\ UNCHANGED <<clock, url, now, cached, loaded, live, ret>>

\* line 75 raises (the store cannot be read)
QueryFault(p) ==
    /\ pc[p] = "query"
    /\ gets' = gets
    /\ Raise(p, "query")

\* GetFault caught inside fetch(): the fault is taken for a failure answer,
\* the policy is applied to it and the call goes on to commit
GetFaultSwallowed(p) ==
    /\ pc[p] = "get"
    /\ fault' = [fault EXCEPT ![p] = "get"]
    /\ gets' = [gets EXCEPT ![p] = @ + 1]
    /\ live' = [live EXCEPT ![p] = [status |-> 599]]
    /\ cached' = [cached EXCEPT ![p] = ApplyPolicy(@, [status |-> 599], now[p])]
    /\ pc' = [pc EXCEPT ![p] = "commit"]
    /\ UNCHANGED <<store, clock, url, now, loaded, outcome, ret, sess>>

\* line 84 raises (timeout, connection error): the GET was made, no answer
GetFault(p) ==
    /\ pc[p] = "get"
    /\ gets' = [gets EXCEPT ![p] = @ + 1]
    /\ Raise(p, "get")

\* line 96 raises (the store cannot be written)
CommitFault(p) ==
    /\ pc[p] = "commit"
    /\ gets' = gets
    /\ Raise(p, "commit")

\* MissingUrl without the test of line 126: the request goes on to fetch()
\* with the empty url
MissingUrlFetches(p) ==
    /\ pc[p] = "idle"
    /\ pc' = [pc EXCEPT ![p] = "query"]
    /\ url' = [url EXCEPT ![p] = NoUrl]
    /\ now' = [now EXCEPT ![p] = clock]
    /\ sess' = [sess EXCEPT ![p] = "open"]
    /\ UNCHANGED <<store, clock, cached, loaded, live, gets, outcome, ret,
                   fault>>

\* lines 125-130: fetch_context answers a request that has no url with the
\* missing_url error; fetch() is not called
MissingUrl(p) ==
    /\ pc[p] = "idle"
    /\ pc' = [pc EXCEPT ![p] = "done"]
    /\ url' = [url EXCEPT ![p] = NoUrl]
    /\ outcome' = [outcome EXCEPT ![p] = "missing_url"]
    /\ UNCHANGED <<store, clock, now, cached, loaded, live, gets, ret, fault,
                   sess>>

\* the call has ended: its locals and its closed session are dropped
Exit(p) ==
    /\ pc[p] = "done"
    /\ pc' = [pc EXCEPT ![p] = "idle"]
    /\ url' = [url EXCEPT ![p] = 1]
    /\ now' = [now EXCEPT ![p] = 0]
    /\ cached' = [cached EXCEPT ![p] = NewEntry]
    /\ loaded' = [loaded EXCEPT ![p] = NewEntry]
    /\ live' = [live EXCEPT ![p] = NoneResponse]
    /\ gets' = [gets EXCEPT ![p] = 0]
    /\ outcome' = [outcome EXCEPT ![p] = "none"]
    /\ ret' = [ret EXCEPT ![p] = NoneResponse]
    /\ fault' = [fault EXCEPT ![p] = "none"]
    /\ sess' = [sess EXCEPT ![p] = "none"]
    /\ UNCHANGED <<store, clock>>

\* A call that has ended drops its locals before anything else happens:
\* the step is local to the caller, so no store state is lost by taking it
\* first.
Settled == \A q \in Procs : pc[q] # "done"

\* no other caller is inside fetch(): calls do not overlap
Quiet(p) == \A q \in Procs \ {p} : pc[q] = "idle"

\* callers overlap freely, all fetching the same url
Next ==
    \/ \E p \in Procs : Exit(p)
    \/ Settled /\ Tick
    \/ \E p \in Procs, u \in SharedUrl : Settled /\ Call(p, u)
    \/ \E p \in Procs : Settled /\ Query(p)
    \/ \E p \in Procs, r \in Responses : Settled /\ Get(p, r)
    \/ \E p \in Procs : Settled /\ Commit(p)
    \/ \E p \in Procs : Settled /\ QueryFault(p)
    \/ \E p \in Procs : Settled /\ GetFault(p)
    \/ \E p \in Procs : Settled /\ CommitFault(p)
    \/ \E p \in Procs : Settled /\ MissingUrl(p)

Spec == InitShared /\ [][Next]_vars

\* calls for any url, never overlapping: a call starts only when no other
\* caller is inside fetch()
NextSeq ==
    \/ \E p \in Procs : Exit(p)
    \/ Settled /\ Tick
    \/ \E p \in Procs, u \in Urls : Settled /\ Quiet(p) /\ Call(p, u)
    \/ \E p \in Procs : Settled /\ Query(p)
    \/ \E p \in Procs, r \in Responses : Settled /\ Get(p, r)
    \/ \E p \in Procs : Settled /\ Commit(p)
    \/ \E p \in Procs : Settled /\ QueryFault(p)
    \/ \E p \in Procs : Settled /\ GetFault(p)
    \/ \E p \in Procs : Settled /\ CommitFault(p)
    \/ \E p \in Procs : Settled /\ Quiet(p) /\ MissingUrl(p)

SpecSeq == Init /\ [][NextSeq]_vars

\* ------------------------------------------------------------ the claims

\* the url of the requests that caller p serves when every caller serves
\* requests for a url of its own
OwnUrl(p) == {u \in Urls : u = p}

\* requests for different urls are served at the same time, one caller per
\* url
NextCross ==
    \/ \E p \in Procs : Exit(p)
    \/ Settled /\ Tick
    \/ \E p \in Procs : \E u \in OwnUrl(p) : Settled /\ Call(p, u)
    \/ \E p \in Procs : Settled /\ Query(p)
    \/ \E p \in Procs, r \in Responses : Settled /\ Get(p, r)
    \/ \E p \in Procs : Settled /\ Commit(p)
    \/ \E p \in Procs : Settled /\ QueryFault(p)
    \/ \E p \in Procs : Settled /\ GetFault(p)
    \/ \E p \in Procs : Settled /\ CommitFault(p)
    \/ \E p \in Procs : Settled /\ MissingUrl(p)

SpecCross == Init /\ [][NextCross]_vars

\* the call of p has ended / has returned / has returned after a live GET
Done(p) == pc[p] = "done"
Returned(p) == Done(p) /\ outcome[p] = "returned"
Refreshed(p) == Returned(p) /\ gets[p] = 1

\* the step in which the commit of p succeeds and p returns
CommitStep(p) == pc[p] = "commit" /\ pc'[p] = "done" /\ outcome'[p] = "returned"

\* the row the call of p has read or, once it has returned, inserted
RowOf(p) == IF loaded[p].id = 0 THEN Len(store) ELSE loaded[p].id

\* the time-to-live lines 91 and 94 give to a live answer
TtlOf(r) == IF Is2xx(r) THEN 12 ELSE 1

\* Shape without the test of line 139: every returned response is parsed
ShapeParsesAll(r) ==
    [error |-> "none", code |-> 200, response |-> r, parsed |-> TRUE]

\* lines 139-162: the answer fetch_context builds from the response that
\* fetch() returned: the fetch_failed error with the response's text and
\* status code, or the parsed document
Shape(r) ==
    IF r.status \div 100 # 2
    THEN [error |-> "fetch_failed", code |-> r.status, response |-> r,
          parsed |-> FALSE]
    ELSE [error |-> "none", code |-> 200, response |-> r, parsed |-> TRUE]

\* the answer of the request of p: lines 126-130 without a url, lines 139-162
\* after fetch() has returned; an exception of fetch() is not caught by
\* fetch_context and leaves it
Result(p) ==
    CASE outcome[p] = "missing_url" ->
            [error |-> "missing_url", code |-> 400, response |-> NoneResponse,
             parsed |-> FALSE]
      [] outcome[p] = "returned" -> Shape(ret[p])
      [] outcome[p] = "raised" ->
            [error |-> "exception", code |-> 500, response |-> NoneResponse,
             parsed |-> FALSE]
      [] OTHER ->
            [error |-> "pending", code |-> 0, response |-> NoneResponse,
             parsed |-> FALSE]

\* no step turns a stored 2xx response into a response that is not 2xx
Keeps2xx ==
    \A i \in DOMAIN store :
        Is2xx(store[i].response) =>
            i \in DOMAIN store' /\ Is2xx(store'[i].response)

\* C1: when calls do not overlap, a refresh of a stale entry holding a 2xx
\* response whose live GET is not 2xx leaves the table as it was but for that
\* entry's expiry, which becomes now + 1 hour; and no step ever turns a stored
\* 2xx response into a non-2xx one.
C1_NonRegressionSequential ==
    [][/\ Keeps2xx
       /\ \A p \in Procs :
            (/\ CommitStep(p)
             /\ gets[p] = 1
             /\ ~Is2xx(live[p])
             /\ loaded[p].id # 0
             /\ Is2xx(store[loaded[p].id].response))
            => store' = [store EXCEPT ![loaded[p].id].expiry = now[p] + 1]]_vars

\* C1 witness: a call has returned from a failed refresh of a stale 2xx entry
C1_Witness ==
    \E p \in Procs :
        /\ Refreshed(p)
        /\ ~Is2xx(live[p])
        /\ loaded[p].id # 0
        /\ Is2xx(loaded[p].response)
        /\ Is2xx(store[loaded[p].id].response)

\* C2: also when calls for one url overlap, a stored 2xx response is never
\* replaced by a non-2xx response, whichever write lands last.
C2_NonRegressionUnderRaces == [][Keeps2xx]_vars

\* C3: the table never holds two rows with the same url.
C3_OneRowPerUrl ==
    \A i, j \in DOMAIN store : store[i].url = store[j].url => i = j

\* C4: when a call that made a live GET has committed, the expiry of its
\* entry is the time read at the start of the call plus 12 hours after a 2xx
\* answer and plus 1 hour after any other answer.
C4_TtlCorrect ==
    \A p \in Procs :
        Refreshed(p) => store[RowOf(p)].expiry = now[p] + TtlOf(live[p])

\* C4 witness: a failed refresh over a stored 2xx response has committed after
\* the clock moved on during the call
C4_Witness ==
    \E p \in Procs :
        /\ Refreshed(p)
        /\ ~Is2xx(live[p])
        /\ Is2xx(loaded[p].response)
        /\ clock > now[p]

\* C5: a call that finds an entry whose expiry is later than the time read at
\* the start of the call makes no GET and writes nothing, and when it returns
\* it returns the response stored for that entry.
C5_FreshHit ==
    [][\A p \in Procs :
        (/\ pc[p] = "commit"
         /\ pc'[p] = "done"
         /\ loaded[p].id # 0
         /\ now[p] < loaded[p].expiry)
        => /\ gets'[p] = 0
           /\ store' = store
           /\ outcome'[p] = "returned"
                => ret'[p] = store[loaded[p].id].response]_vars

\* C5 witness: a call has returned a stored response from a fresh entry
C5_Witness ==
    \E p \in Procs :
        /\ Returned(p)
        /\ loaded[p].id # 0
        /\ now[p] < loaded[p].expiry
        /\ gets[p] = 0
        /\ ret[p] = loaded[p].response

\* C6: a call that found no entry for its url and has returned made exactly
\* one live GET, and the table then holds exactly one row for that url.
C6_FirstFetchOneEntry ==
    \A p \in Procs :
        (Returned(p) /\ loaded[p].id = 0)
        => gets[p] = 1 /\ Cardinality(Matching(url[p])) = 1

C9_SuccessOverwrites ==
    \A p \in Procs :
        (Refreshed(p) /\ Is2xx(live[p]))
        => store[RowOf(p)].response = live[p]

\* C9 witness: a 2xx answer has replaced a different, older 2xx response
C9_Witness ==
    \E p \in Procs :
        /\ Refreshed(p)
        /\ Is2xx(live[p])
        /\ Is2xx(loaded[p].response)
        /\ loaded[p].response # live[p]
        /\ store[loaded[p].id].response = live[p]

\* C10: every row of the table has a response and an expiry.
C10_RowsComplete ==
    \A i \in DOMAIN store :
        store[i].response # NoneResponse /\ store[i].expiry # NoneExpiry

\* C10 witness: a first fetch whose GET was not 2xx has inserted its row
\* while another call that found no row is still inside fetch()
C10_Witness ==
    \E p, q \in Procs :
        /\ Returned(p)
        /\ loaded[p].id = 0
        /\ ~Is2xx(live[p])
        /\ store[Len(store)].url = url[p]
        /\ q # p
        /\ pc[q] \in {"get", "commit"}
        /\ loaded[q].id = 0

\* C11: a store session is open exactly while its call is inside fetch();
\* when the call has ended, by return or by an exception raised at the
\* lookup, the GET or the commit, its session has been closed, and a caller
\* that is in no call holds no session.
C11_SessionScoped ==
    \A p \in Procs :
        /\ sess[p] = "open" <=> pc[p] \in {"query", "get", "commit"}
        /\ (Done(p) /\ outcome[p] \in {"returned", "raised"})
           => sess[p] = "closed"
        /\ pc[p] = "idle" => sess[p] = "none"

\* C11 witness: a call has ended by an exception of the commit and its
\* session is closed
C11_Witness ==
    \E p \in Procs :
        /\ Done(p)
        /\ outcome[p] = "raised"
        /\ fault[p] = "commit"
        /\ sess[p] = "closed"

\* C12: a request without a url parameter, absent or empty, is answered in
\* one step with the missing_url error and status 400; that step opens no
\* store session, reads no entry, makes no GET and leaves the table as it was.
C12_MissingUrlTouchesNothing ==
    [][\A p \in Procs :
         url'[p] = NoUrl
         => /\ pc'[p] = "done"
            /\ Result(p)'.error = "missing_url"
            /\ Result(p)'.code = 400
            /\ ~Result(p)'.parsed
            /\ sess'[p] = "none"
            /\ loaded'[p] = NewEntry
            /\ gets'[p] = 0
            /\ store' = store]_vars

\* C12 witness: a request without a url has been answered while the table
\* holds entries
C12_Witness ==
    \E p \in Procs :
        /\ Done(p)
        /\ url[p] = NoUrl
        /\ outcome[p] = "missing_url"
        /\ Result(p).code = 400
        /\ Len(store) > 0

\* C13 as stated: whenever the live GET made for a request answered with a
\* status that is not 2xx, the request is answered with the fetch_failed
\* error carrying that status and body, and nothing is parsed.
C13_LiveFailureIsFetchFailed ==
    \A p \in Procs :
        (Refreshed(p) /\ ~Is2xx(live[p]))
        => /\ Result(p).error = "fetch_failed"
           /\ Result(p).code = live[p].status
           /\ Result(p).response = live[p]
           /\ ~Result(p).parsed

\* C13 amended: a request is answered with the fetch_failed error, carrying
\* the status and body of the response fetch() returned and without parsing,
\* exactly when that response is not 2xx. After a live GET that was not 2xx
\* this is the live response when the entry held no 2xx response; when the
\* entry held a 2xx response, that stored response is returned and parsed
\* and the live failure is not reported.
C13_ReturnedFailureIsFetchFailed ==
    \A p \in Procs :
        Returned(p)
        => /\ ~Is2xx(ret[p])
              => /\ Result(p).error = "fetch_failed"
                 /\ Result(p).code = ret[p].status
                 /\ Result(p).response = ret[p]
                 /\ ~Result(p).parsed
           /\ Is2xx(ret[p]) => (Result(p).error = "none" /\ Result(p).parsed)
           /\ (gets[p] = 1 /\ ~Is2xx(live[p]) /\ ~Is2xx(loaded[p].response))
              => ret[p] = live[p]
           /\ (gets[p] = 1 /\ ~Is2xx(live[p]) /\ Is2xx(loaded[p].response))
              => ret[p] = loaded[p].response

\* C13 witness: the live GET of a request answered 503 over an entry that
\* held an older failure, and the request is answered fetch_failed with 503
C13_Witness ==
    \E p \in Procs :
        /\ Refreshed(p)
        /\ loaded[p].id # 0
        /\ ~Is2xx(loaded[p].response)
        /\ live[p].status = 503
        /\ loaded[p].response # live[p]
        /\ Result(p).error = "fetch_failed"
        /\ Result(p).code = 503

\* C14: when calls do not overlap, a first fetch of a url at time T whose GET
\* is not 2xx leaves an entry holding that response with expiry T + 1 hour;
\* a later call that finds a stored failure before its expiry returns it
\* without a GET and without touching the entry, and a call that finds it at
\* its expiry or later (T + 1 hour exactly included) makes a live GET.
C14_RetryAfterFailureTtl ==
    \A p \in Procs :
        /\ (Returned(p) /\ loaded[p].id = 0 /\ ~Is2xx(live[p]))
           => /\ gets[p] = 1
              /\ store[RowOf(p)].url = url[p]
              /\ store[RowOf(p)].response = live[p]
              /\ store[RowOf(p)].expiry = now[p] + FAIL_TTL_HOURS
        /\ (Returned(p) /\ loaded[p].id # 0 /\ ~Is2xx(loaded[p].response)
                        /\ now[p] < loaded[p].expiry)
           => /\ gets[p] = 0
              /\ ret[p] = loaded[p].response
              /\ store[loaded[p].id].response = loaded[p].response
              /\ store[loaded[p].id].expiry = loaded[p].expiry
        /\ (Done(p) /\ loaded[p].id # 0 /\ ~Is2xx(loaded[p].response)
                    /\ now[p] >= loaded[p].expiry)
           => gets[p] = 1

\* C14 witness: a call made exactly one hour after the failure was stored
\* (the entry's expiry is the call's time, hour 1) has made a live GET
C14_Witness ==
    \E p \in Procs :
        /\ Returned(p)
        /\ loaded[p].id # 0
        /\ ~Is2xx(loaded[p].response)
        /\ loaded[p].expiry = FAIL_TTL_HOURS
        /\ now[p] = loaded[p].expiry
        /\ gets[p] = 1

\* C15: the value a call returns is the response its url's entry holds once
\* the call's commit is done; in particular, when calls do not overlap, a
\* call that refreshed an entry holding a 2xx response with a live GET that
\* was not 2xx returns that stored 2xx response and not the live failure.
C15_ReturnsStoredResponse ==
    \A p \in Procs :
        Returned(p)
        => /\ store[RowOf(p)].url = url[p]
           /\ ret[p] = store[RowOf(p)].response
           /\ (gets[p] = 1 /\ ~Is2xx(live[p]) /\ Is2xx(loaded[p].response))
              => (ret[p] = loaded[p].response /\ ret[p] # live[p])

\* C15 witness: a call whose live GET answered 503 over a stale entry holding
\* a 200 response has returned the 200 response
C15_Witness ==
    \E p \in Procs :
        /\ Refreshed(p)
        /\ live[p].status = 503
        /\ loaded[p].id # 0
        /\ loaded[p].response.status = 200
        /\ ret[p].status = 200
        /\ store[loaded[p].id].response = ret[p]

\* C16: no call makes more than one live GET, whatever the answer or the
\* fault; and a call whose lookup has not raised makes exactly one live GET
\* if and only if it found no entry or the time it read at its start is at
\* or past the expiry of the entry it found.
C16_AtMostOneGet ==
    \A p \in Procs :
        /\ gets[p] <= 1
        /\ (Done(p) /\ outcome[p] \in {"returned", "raised"}
                    /\ fault[p] # "query")
           => (gets[p] = 1
               <=> (loaded[p].id = 0 \/ now[p] >= loaded[p].expiry))
        /\ (Done(p) /\ fault[p] = "query") => gets[p] = 0

\* C16 witness: a call whose one live GET raised has ended without a second
\* attempt
C16_Witness ==
    \E p \in Procs :
        /\ Done(p)
        /\ fault[p] = "get"
        /\ loaded[p].id # 0
        /\ now[p] >= loaded[p].expiry
        /\ gets[p] = 1

\* C17: also when calls for different urls overlap, no step of a call of
\* fetch(u), be it a hit, a refresh, or a fault with its rollback, changes
\* or removes a row whose url is not u.
C17_OtherEntriesUntouched ==
    [][\A p \in Procs :
         (pc[p] \in {"query", "get", "commit"} /\ pc'[p] # pc[p])
         => \A i \in DOMAIN store :
              store[i].url # url[p]
              => (i \in DOMAIN store' /\ store'[i] = store[i])]_vars

\* C17 witness: a call has refreshed the entry of its url while a call for
\* another url, whose entry exists, is between its GET and its commit
C17_Witness ==
    \E p, q \in Procs :
        /\ Refreshed(p)
        /\ q # p
        /\ pc[q] = "commit"
        /\ gets[q] = 1
        /\ url[q] # url[p]
        /\ loaded[q].id # 0
        /\ loaded[p].id # 0
        /\ store[loaded[q].id].url = url[q]
        /\ store[loaded[p].id].url = url[p]

\* C18: no step removes a row or changes a row's url, so the set of urls
\* that have an entry never shrinks; a call that refreshes an expired entry
\* leaves the number of rows as it was and writes to the row it found.
C18_NoDeletion ==
    [][/\ Len(store') >= Len(store)
       /\ \A i \in DOMAIN store : store'[i].url = store[i].url
       /\ {store[i].url : i \in DOMAIN store}
              \subseteq {store'[i].url : i \in DOMAIN store'}
       /\ \A p \in Procs :
            (CommitStep(p) /\ loaded[p].id # 0)
            => /\ Len(store') = Len(store)
               /\ \A i \in DOMAIN store :
                    i # loaded[p].id => store'[i] = store[i]]_vars

\* C18 witness: an entry found expired has been refreshed in place with a new
\* response and a later expiry
C18_Witness ==
    \E p \in Procs :
        /\ Refreshed(p)
        /\ loaded[p].id # 0
        /\ now[p] >= loaded[p].expiry
        /\ store[loaded[p].id].url = url[p]
        /\ store[loaded[p].id].response # loaded[p].response
        /\ store[loaded[p].id].expiry > loaded[p].expiry

\* C19: nothing gates the GETs for one url: a call that has found no fresh
\* entry can make its live GET, and a call at its lookup can run it, also
\* while another call for the same url is between its own freshness test and
\* its commit; so two overlapping calls for one url can both find the entry
\* absent or stale and both make a live GET.
C19_NoSingleFlight ==
    \A p, q \in Procs :
        (/\ p # q
         /\ Settled
         /\ url[p] = url[q]
         /\ pc[q] \in {"get", "commit"})
        => /\ pc[p] = "query" => ENABLED Query(p)
           /\ pc[p] = "get" => \A r \in Responses : ENABLED Get(p, r)

\* C19 witness: two calls for one url have both found the same entry stale
\* and have both made a live GET before either has committed
C19_Witness ==
    \E p, q \in Procs :
        /\ p # q
        /\ url[p] = url[q]
        /\ pc[p] = "commit"
        /\ pc[q] = "commit"
        /\ gets[p] = 1
        /\ gets[q] = 1
        /\ loaded[p].id # 0
        /\ loaded[q] = loaded[p]
        /\ now[p] >= loaded[p].expiry

\* C20: when calls do not overlap and the clock does not go back, no step
\* lowers the expiry of a row, and the commit of a call that made a live GET
\* over an entry it found leaves that entry's expiry strictly later than it
\* was.
C20_ExpiryMonotonic ==
    [][/\ clock' >= clock
       /\ \A i \in DOMAIN store :
            i \in DOMAIN store' /\ store'[i].expiry >= store[i].expiry
       /\ \A p \in Procs :
            (CommitStep(p) /\ gets[p] = 1 /\ loaded[p].id # 0)
            => store'[loaded[p].id].expiry > store[loaded[p].id].expiry]_vars

\* C20 witness: a failed refresh of an entry found exactly at its expiry has
\* moved the expiry one hour on
C20_Witness ==
    \E p \in Procs :
        /\ Refreshed(p)
        /\ ~Is2xx(live[p])
        /\ loaded[p].id # 0
        /\ now[p] = loaded[p].expiry
        /\ store[loaded[p].id].expiry = loaded[p].expiry + FAIL_TTL_HOURS

====
